---- MODULE Spec2Model ----
(***************************************************************************)
(* A model of the TensorFlow.js learning platform's session state:         *)
(*   - PerformanceMonitor   (js/utils/performance-monitor.js)              *)
(*   - TensorOperationsDemo (the result log, the five demo methods)        *)
(*   - TensorUtils.performance (measureTime / benchmark)                   *)
(*   - ExportUtils.exportReport                                            *)
(*                                                                         *)
(* JavaScript numbers that come out of a division are kept exact, as a     *)
(* record [num, den]; NaN and the infinities are the strings "NaN",        *)
(* "Infinity" and "-Infinity".  A Date is the reading of the clock `now`   *)
(* when it was constructed.                                                *)
(***************************************************************************)
EXTENDS Integers, Sequences, FiniteSets, TLC

VARIABLES
    metrics,         \* PerformanceMonitor.metrics
    isMonitoring,    \* PerformanceMonitor.isMonitoring
    updateInterval,  \* PerformanceMonitor.updateInterval: timer handle or "null"
    display,         \* the DOM elements updateDisplay writes to
    dom,             \* ids / selectors of the elements the page has
    recorded,        \* history: every metric recordMetric built since the last clear
    exported,        \* the value exportData() handed to its caller, or NoExport
    timers,          \* handles of the interval timers the browser has running
    results,         \* TensorOperationsDemo.results
    resultsText,     \* value of the 'results' element
    chart,           \* TensorOperationsDemo.chart: the Chart.js object, or NoChart
    sink,            \* the file last handed to the browser by downloadFile, or NoDownload
    demo,            \* the demo method being run: its locals and position
    bench,           \* the running measureTime / benchmark call: its locals and position
    tfBytes,         \* tf.memory().numBytes
    now,             \* the clock: new Date() and performance.now() read and advance it
    workload,        \* which of the bounded call patterns the session follows
    lastOp,          \* name of the call that returned last
    lastArgs,        \* its arguments
    ret              \* what that call returned ("undefined" for a void call)

monitorVars == <<metrics, isMonitoring, updateInterval, display, recorded, exported, timers>>
logVars == <<results, resultsText>>
benchVars == <<bench, tfBytes>>
demoVars == <<chart, demo, sink>>

vars == <<monitorVars, logVars, benchVars, demoVars, dom, now, workload, lastOp, lastArgs, ret>>

-----------------------------------------------------------------------------
(* Bounds of the model *)

MaxRecords == 102     \* recordMetric calls of a long session (past Capacity)
MaxWorkload == 2      \* number of call patterns a long session may follow
FreeCalls == 1        \* calls of a long session whose arguments are chosen freely
MaxTime == 3          \* clock readings of a short session
ExecTimeMod == 7      \* pattern execution times range over 0 .. ExecTimeMod-1
MemMod == 3           \* pattern memory samples range over 0 .. (MemMod-1) * MemUnit
MemUnit == 50
MaxResults == 101     \* addResult calls in one behaviour (past 100)
MaxIterations == 5    \* iterations asked of measureTime and benchmark
MaxInvocations == 2   \* demo methods run in one behaviour
MaxReportResults == 2 \* entries of a result log handed to an export
MaxSnapshot == 2      \* metrics of a monitor export handed to an export
MaxTensors == 2       \* tensors a caller of safeDispose holds
MaxArgs == 3          \* arguments of one safeDispose call
MaxDim == 2           \* size of each dimension of a visualised tensor

(* Program constants *)

Capacity == 100       \* "Keep only last 100 metrics"

NoExport == [type |-> "none"]
NoDownload == [type |-> "none"]
Null == 0             \* null; a timer handle is a positive integer

-----------------------------------------------------------------------------
(* JavaScript arithmetic *)

Min(a, b) == IF a <= b THEN a ELSE b
Max(a, b) == IF a >= b THEN a ELSE b

\* a / b on numbers
Div(a, b) ==
    IF b = 0
    THEN IF a = 0 THEN "NaN" ELSE IF a > 0 THEN "Infinity" ELSE "-Infinity"
    ELSE [num |-> a, den |-> b]

\* xs[lo] + ... + xs[hi].  The sum is taken by halves to keep the evaluation
\* shallow; integer addition being associative, it is the left-to-right sum.
RECURSIVE SumRange(_, _, _)
SumRange(xs, lo, hi) ==
    IF lo > hi THEN 0
    ELSE IF lo = hi THEN xs[lo]
    ELSE LET mid == (lo + hi) \div 2
         IN  SumRange(xs, lo, mid) + SumRange(xs, mid + 1, hi)

\* array.reduce((sum, x) => sum + x, 0)
Reduce(xs) == SumRange(xs, 1, Len(xs))

RECURSIVE MaxRange(_, _, _)
MaxRange(xs, lo, hi) ==
    IF lo = hi THEN xs[lo]
    ELSE LET mid == (lo + hi) \div 2
         IN  Max(MaxRange(xs, lo, mid), MaxRange(xs, mid + 1, hi))

RECURSIVE MinRange(_, _, _)
MinRange(xs, lo, hi) ==
    IF lo = hi THEN xs[lo]
    ELSE LET mid == (lo + hi) \div 2
         IN  Min(MinRange(xs, lo, mid), MinRange(xs, mid + 1, hi))

\* Math.max(...xs)
MathMax(xs) == IF xs = <<>> THEN "-Infinity" ELSE MaxRange(xs, 1, Len(xs))

\* Math.min(...xs)
MathMin(xs) == IF xs = <<>> THEN "Infinity" ELSE MinRange(xs, 1, Len(xs))

\* (a / b).toFixed(2) for a >= 0, b > 0: the quotient in hundredths, rounded half up
ToFixed2(a, b) == (200 * a + b) \div (2 * b)

-----------------------------------------------------------------------------
(* PerformanceMonitor *)

OperationNames == <<"Shape Operations", "Data Type Conversions", "Mathematical Operations">>

\* memory readings tf.memory().numBytes can give: 1.5 KB, 63 MB, 90 MB
TfMemorySamples == {1536, 66060288, 94371840}

\* the page: every element the monitor looks up, or some of them missing
MonitorElements == {"memory-usage", "progress-bar", "execution-time"}
MonitorPages == {els \in SUBSET MonitorElements : "progress-bar" \in els => "memory-usage" \in els}

\* the texts are sequences of parts; the page starts with no execution-time text
InitialDisplay == [barWidth |-> "", barText |-> "", barClass |-> "progress-bar", execText |-> <<>>]

\* the metric object built by recordMetric
NewMetric(operation, executionTime, memoryBefore, memoryAfter, t) ==
    [operation |-> operation,
     executionTime |-> executionTime,
     memoryBefore |-> memoryBefore,
     memoryAfter |-> memoryAfter,
     memoryDelta |-> memoryAfter - memoryBefore,
     timestamp |-> t]

\* a recorder that evicts with pop() instead of shift()
PushMetricPop(ms, metric) ==
    LET pushed == Append(ms, metric)
    IN IF Len(pushed) > Capacity THEN SubSeq(pushed, 1, Len(pushed) - 1) ELSE pushed

\* this.metrics.push(metric); if (this.metrics.length > 100) this.metrics.shift()
PushMetric(ms, metric) ==
    LET pushed == Append(ms, metric)
    IN IF Len(pushed) > Capacity THEN Tail(pushed) ELSE pushed

\* this.metrics.map(m => m.executionTime) and its like
ExecutionTimes(ms) == [i \in 1..Len(ms) |-> ms[i].executionTime]
MemoryDeltas(ms) == [i \in 1..Len(ms) |-> ms[i].memoryDelta]
MemoryAfters(ms) == [i \in 1..Len(ms) |-> ms[i].memoryAfter]
OperationEntries(ms) ==
    [i \in 1..Len(ms) |->
        [operation |-> ms[i].operation, executionTime |-> ms[i].executionTime,
         memoryDelta |-> ms[i].memoryDelta, timestamp |-> ms[i].timestamp]]

\* a summary without the empty case
SummaryOfNoEmptyCase(ms) ==
    [totalOperations |-> Len(ms),
     averageExecutionTime |-> Div(Reduce(ExecutionTimes(ms)), Len(ms)),
     totalMemoryUsed |-> Reduce(MemoryDeltas(ms)),
     peakMemoryUsage |-> MathMax(MemoryAfters(ms)),
     operations |-> OperationEntries(ms)]

\* a summary that totals memoryAfter instead of memoryDelta
SummaryOfTotalsMemoryAfter(ms) ==
    IF Len(ms) = 0
    THEN [totalOperations |-> 0, averageExecutionTime |-> 0,
          totalMemoryUsed |-> 0, peakMemoryUsage |-> 0]
    ELSE [totalOperations |-> Len(ms),
          averageExecutionTime |-> Div(Reduce(ExecutionTimes(ms)), Len(ms)),
          totalMemoryUsed |-> Reduce(MemoryAfters(ms)),
          peakMemoryUsage |-> MathMax(MemoryAfters(ms)),
          operations |-> OperationEntries(ms)]

\* the object getSummary returns for this.metrics = ms
SummaryOf(ms) ==
    IF Len(ms) = 0
    THEN [totalOperations |-> 0, averageExecutionTime |-> 0,
          totalMemoryUsed |-> 0, peakMemoryUsage |-> 0]
    ELSE [totalOperations |-> Len(ms),
          averageExecutionTime |-> Div(Reduce(ExecutionTimes(ms)), Len(ms)),
          totalMemoryUsed |-> Reduce(MemoryDeltas(ms)),
          peakMemoryUsage |-> MathMax(MemoryAfters(ms)),
          operations |-> OperationEntries(ms)]

\* Math.min((numBytes / (1024 * 1024 * 100)) * 100, 100)
Percentage(numBytes) ==
    IF numBytes >= 104857600 THEN 100 ELSE Div(numBytes, 1048576)

\* (numBytes / 1024).toFixed(1), in tenths of a KB
KBTenths(numBytes) ==
    (numBytes \div 1024) * 10 + ((numBytes % 1024) * 20 + 1024) \div 2048

BarClass(numBytes) ==
    IF numBytes > 83886080 THEN "progress-bar bg-danger"
    ELSE IF numBytes > 62914560 THEN "progress-bar bg-warning"
    ELSE "progress-bar bg-success"

\* updateDisplay: the display after one run over metrics ms, with tf.memory()
\* reading numBytes, on a page holding the elements els.  A memory element
\* without its progress bar makes the body throw; the catch logs and returns.
UpdateDisplayOf(d, ms, numBytes, els) ==
    LET hasBar == "memory-usage" \in els /\ "progress-bar" \in els
        throws == "memory-usage" \in els /\ "progress-bar" \notin els
        withBar == IF hasBar
                   THEN [d EXCEPT !.barWidth = Percentage(numBytes),
                                  !.barText = <<KBTenths(numBytes), "KB">>,
                                  !.barClass = BarClass(numBytes)]
                   ELSE d
    IN  IF throws THEN d
        ELSE IF "execution-time" \in els /\ Len(ms) > 0
             THEN [withBar EXCEPT !.execText =
                      <<ToFixed2(Reduce(ExecutionTimes(ms)), Len(ms)), "ms">>]
             ELSE withBar

\* date.toJSON(): the ISO-8601 text of the instant
IsoString(t) == <<"ISO", t>>

\* JSON of an array of objects carrying a Date in timestamp
WithIsoTimestamps(xs) ==
    [i \in 1..Len(xs) |-> [xs[i] EXCEPT !.timestamp = IsoString(xs[i].timestamp)]]

SummaryJSON(s) ==
    IF "operations" \in DOMAIN s
    THEN [s EXCEPT !.operations = WithIsoTimestamps(s.operations)]
    ELSE s

\* JSON.stringify(value, null, 2): a string, which refers to no live object
Stringify(value) == [type |-> "string", text |-> value]

\* an exportData that returns the object itself, this.metrics included
ExportDataOfLiveObject(ms, t) ==
    [type |-> "object",
     object |-> [summary |-> SummaryJSON(SummaryOf(ms)),
                 metrics |-> WithIsoTimestamps(ms),
                 exportTimestamp |-> IsoString(t)]]

\* the value exportData returns at instant t
ExportDataOf(ms, t) ==
    Stringify([summary |-> SummaryJSON(SummaryOf(ms)),
               metrics |-> WithIsoTimestamps(ms),
               exportTimestamp |-> IsoString(t)])

\* what a holder of the exported value reads in it
SnapshotView ==
    IF exported.type = "none" THEN <<>>
    ELSE IF exported.type = "string" THEN exported.text
    ELSE [exported.object EXCEPT !.metrics = WithIsoTimestamps(metrics)]

-----------------------------------------------------------------------------
(* Arguments of the recordMetric calls *)

\* the n-th call of a long session following pattern w
PatternArgs(w, n) ==
    [operation |-> OperationNames[(n % Len(OperationNames)) + 1],
     executionTime |-> (w * n + 4) % ExecTimeMod,
     memoryBefore |-> ((w + n) % MemMod) * MemUnit,
     memoryAfter |-> ((n * n + w * n + w) % MemMod) * MemUnit]

\* arguments a call may take when they are chosen freely
FreeArgs ==
    [operation : {"Advanced Operations"},
     executionTime : {5, 2 * ExecTimeMod},
     memoryBefore : {100},
     memoryAfter : {150, MemMod * MemUnit + 100}]

\* the free choices of a long session: the two extremes
LongFreeArgs == {a \in FreeArgs : (a.executionTime = 5) = (a.memoryAfter = 150)}

LongArgs(w, n) == IF n <= FreeCalls THEN LongFreeArgs ELSE {PatternArgs(w, n)}

-----------------------------------------------------------------------------
(* Actions of the PerformanceMonitor *)

\* The browser runs one callback at a time: a timer callback or an event
\* handler starts only when no other is on the stack.  A callback gives way
\* at an await or a yield; the demo methods have none.
YieldsAtEveryStep(pc) == pc = "Running"
YieldsToEventLoop(pc) == FALSE
EventLoopIdle == demo.pc = "Idle" \/ YieldsToEventLoop(demo.pc)

Called(op, args, value) == lastOp' = op /\ lastArgs' = args /\ ret' = value
Returns(op, value) == Called(op, <<>>, value)

\* setInterval hands out a handle no running timer has
NewTimer == 1 + Cardinality(timers)

Start ==
    /\ IF isMonitoring
       THEN UNCHANGED <<isMonitoring, updateInterval, timers>>
       ELSE /\ isMonitoring' = TRUE
            /\ updateInterval' = NewTimer
            /\ timers' = timers \cup {NewTimer}
    /\ Returns("start", "undefined")
    /\ UNCHANGED <<metrics, display, dom, recorded, exported, now, workload>>
    /\ UNCHANGED <<logVars, benchVars, demoVars>>

\* a stop that forgets the handle without clearInterval
StopLeavesTimer ==
    /\ IF ~isMonitoring
       THEN UNCHANGED <<isMonitoring, updateInterval, timers>>
       ELSE /\ isMonitoring' = FALSE
            /\ updateInterval' = Null
            /\ UNCHANGED timers
    /\ Returns("stop", "undefined")
    /\ UNCHANGED <<metrics, display, dom, recorded, exported, now, workload>>
    /\ UNCHANGED <<logVars, benchVars, demoVars>>

Stop ==
    /\ IF ~isMonitoring
       THEN UNCHANGED <<isMonitoring, updateInterval, timers>>
       ELSE /\ isMonitoring' = FALSE
            /\ IF updateInterval # Null
               THEN /\ timers' = timers \ {updateInterval}
                    /\ updateInterval' = Null
               ELSE UNCHANGED <<updateInterval, timers>>
    /\ Returns("stop", "undefined")
    /\ UNCHANGED <<metrics, display, dom, recorded, exported, now, workload>>
    /\ UNCHANGED <<logVars, benchVars, demoVars>>

\* the interval callback of a running timer: () => this.updateDisplay()
Tick ==
    /\ EventLoopIdle
    /\ \E handle \in timers, numBytes \in TfMemorySamples :
          display' = UpdateDisplayOf(display, metrics, numBytes, dom)
    /\ Returns("updateDisplay", "undefined")
    /\ UNCHANGED <<metrics, isMonitoring, updateInterval, dom, recorded, exported,
                   timers, now, workload>>
    /\ UNCHANGED <<logVars, benchVars, demoVars>>

DoRecordMetric(a) ==
    LET metric == NewMetric(a.operation, a.executionTime, a.memoryBefore, a.memoryAfter, now)
    IN  /\ metrics' = PushMetric(metrics, metric)
        /\ recorded' = Append(recorded, metric)
        /\ now' = now + 1
        /\ Called("recordMetric", a, "undefined")
        /\ UNCHANGED <<isMonitoring, updateInterval, display, dom, exported, timers, workload>>
        /\ UNCHANGED <<logVars, benchVars, demoVars>>

\* recordMetric in a short session
RecordMetric ==
    /\ now < MaxTime
    /\ \E a \in FreeArgs : DoRecordMetric(a)

\* recordMetric in a long session
RecordMetricLong ==
    /\ now < MaxRecords
    /\ \E a \in LongArgs(workload, now + 1) : DoRecordMetric(a)

\* a getSummary that consumes the metrics it reads
GetSummaryDraining ==
    /\ Returns("getSummary", SummaryOf(metrics))
    /\ metrics' = <<>>
    /\ UNCHANGED <<isMonitoring, updateInterval, display, dom, recorded,
                   exported, timers, now, workload>>
    /\ UNCHANGED <<logVars, benchVars, demoVars>>

GetSummary ==
    /\ Returns("getSummary", SummaryOf(metrics))
    /\ UNCHANGED <<metrics, isMonitoring, updateInterval, display, dom, recorded,
                   exported, timers, now, workload>>
    /\ UNCHANGED <<logVars, benchVars, demoVars>>

Clear ==
    /\ metrics' = <<>>
    /\ recorded' = <<>>
    /\ \E numBytes \in TfMemorySamples :
          display' = UpdateDisplayOf(display, metrics', numBytes, dom)
    /\ Returns("clear", "undefined")
    /\ UNCHANGED <<isMonitoring, updateInterval, dom, exported, timers, now, workload>>
    /\ UNCHANGED <<logVars, benchVars, demoVars>>

ExportData ==
    /\ now < MaxTime
    /\ exported' = ExportDataOf(metrics, now)
    /\ now' = now + 1
    /\ Returns("exportData", exported')
    /\ UNCHANGED <<metrics, isMonitoring, updateInterval, display, dom, recorded,
                   timers, workload>>
    /\ UNCHANGED <<logVars, benchVars, demoVars>>

\* The caller changes what exportData gave it.  A string cannot be changed in
\* place, so the caller changes the object it parses out of it: it empties that
\* object's metrics array.  Were the value an object sharing the recorder's
\* array, the same statement would empty this.metrics.
MutateSnapshot ==
    /\ exported.type # "none"
    /\ IF exported.type = "string"
       THEN /\ Returns("mutateSnapshot", [exported.text EXCEPT !.metrics = <<>>])
            /\ UNCHANGED metrics
       ELSE /\ Returns("mutateSnapshot", [exported.object EXCEPT !.metrics = <<>>])
            /\ metrics' = <<>>
    /\ UNCHANGED <<isMonitoring, updateInterval, display, dom, recorded, exported,
                   timers, now, workload>>
    /\ UNCHANGED <<logVars, benchVars, demoVars>>

-----------------------------------------------------------------------------
(* TensorOperationsDemo: the result log *)

\* A text is the sequence of its pieces; '' is <<>>.

DemoTitles == <<"Shape Operations", "Data Type Conversions", "Mathematical Operations",
                "Memory Management", "Advanced Operations", "Error">>

Narratives == <<"=== TENSOR SHAPE OPERATIONS ===", "=== MATHEMATICAL OPERATIONS ===",
                "Error in shape operations: failed">>

\* a results array that keeps the recorder's cap of 100
PushResultCapped(rs, entry) ==
    LET pushed == Append(rs, entry)
    IN IF Len(pushed) > Capacity THEN Tail(pushed) ELSE pushed

\* a results array that takes every entry twice
PushResultTwice(rs, entry) == Append(Append(rs, entry), entry)

\* a results array that takes new entries at its front
PushResultUnshift(rs, entry) == <<entry>> \o rs

\* this.results.push({ title, content, timestamp: new Date() })
PushResult(rs, entry) == Append(rs, entry)

\* `=== ${result.title} ===\n${result.content}\n\n`
ResultBlock(result) == <<"=== ", result.title, " ===\n", result.content, "\n\n">>

\* parts[lo] + ... + parts[hi], separated by sep: Array.prototype.join, taken by
\* halves (concatenation is associative)
RECURSIVE JoinRange(_, _, _, _)
JoinRange(parts, sep, lo, hi) ==
    IF lo > hi THEN <<>>
    ELSE IF lo = hi THEN parts[lo]
    ELSE LET mid == (lo + hi) \div 2
         IN  JoinRange(parts, sep, lo, mid) \o sep \o JoinRange(parts, sep, mid + 1, hi)

\* a formatResults whose join() keeps the default separator
FormatResultsOfDefaultJoin(rs) ==
    JoinRange([i \in 1..Len(rs) |-> ResultBlock(rs[i])], <<",">>, 1, Len(rs))

\* this.results.map(result => ...).join('')
FormatResultsOf(rs) ==
    JoinRange([i \in 1..Len(rs) |-> ResultBlock(rs[i])], <<>>, 1, Len(rs))

\* updateResults(content): the 'results' element's value afterwards
UpdateResultsOf(text, content, els) == IF "results" \in els THEN content ELSE text

\* the n-th addResult call of a long session following pattern w
LogPatternArgs(w, n) ==
    [title |-> DemoTitles[((w * n) % Len(DemoTitles)) + 1],
     content |-> Narratives[(n % Len(Narratives)) + 1]]

FreeLogArgs == [title : {"Shape Operations", "Error"},
                content : {Narratives[1], Narratives[3]}]

LogArgs(w, n) == IF n <= FreeCalls THEN FreeLogArgs ELSE {LogPatternArgs(w, n)}

AddResult ==
    /\ now < MaxResults
    /\ \E a \in LogArgs(workload, now + 1) :
          /\ results' = PushResult(results, [title |-> a.title, content |-> a.content,
                                             timestamp |-> now])
          /\ Called("addResult", a, "undefined")
    /\ now' = now + 1
    /\ resultsText' = UpdateResultsOf(resultsText, FormatResultsOf(results'), dom)
    /\ UNCHANGED <<monitorVars, benchVars, demoVars, dom, workload>>

FormatResults ==
    /\ Returns("formatResults", FormatResultsOf(results))
    /\ UNCHANGED <<monitorVars, logVars, benchVars, demoVars, dom, now, workload>>

\* a clearResults that forgets the display
ClearResultsLogOnly ==
    /\ results' = <<>>
    /\ Returns("clearResults", "undefined")
    /\ UNCHANGED <<monitorVars, resultsText, benchVars, demoVars, dom, now, workload>>

\* tensorDemo.results = []; tensorDemo.updateResults('')
ClearResults ==
    /\ results' = <<>>
    /\ resultsText' = UpdateResultsOf(resultsText, <<>>, dom)
    /\ Returns("clearResults", "undefined")
    /\ UNCHANGED <<monitorVars, benchVars, demoVars, dom, now, workload>>

-----------------------------------------------------------------------------
(* TensorUtils.performance: measureTime and benchmark *)

\* The operation handed to measureTime or benchmark is the caller's: a call of
\* it takes some time, may allocate tensor memory, and returns or throws.
OperationRuns ==
    {[duration |-> 0, bytes |-> 0, value |-> "a"],
     [duration |-> 2, bytes |-> 4096, value |-> "b"],
     [duration |-> 3, bytes |-> 0, value |-> "a"]}
Durations == {run.duration : run \in OperationRuns}
Allocations == {run.bytes : run \in OperationRuns}

\* the for loop's condition, i <= iterations in place of i < iterations
LoopContinuesInclusive(i, iterations) == i <= iterations

\* for (let i = 0; i < iterations; i++)
LoopContinues(i, iterations) == i < iterations

\* what benchmark returns
BenchmarkResult(times, memoryBefore, memoryAfter) ==
    [averageTime |-> Div(Reduce(times), Len(times)),
     minTime |-> MathMin(times),
     maxTime |-> MathMax(times),
     memoryDelta |-> memoryAfter - memoryBefore,
     times |-> times]

\* what measureTime returns
MeasureTimeResult(start, end, iterations, fnResults) ==
    [totalTime |-> end - start,
     averageTime |-> Div(end - start, iterations),
     iterations |-> iterations,
     results |-> fnResults]

\* benchmark(operation, iterations) is entered: times = [], memoryBefore is read
BenchmarkEnter ==
    /\ bench.pc = "idle"
    /\ \E n \in 0..MaxIterations :
          bench' = [pc |-> "loop", kind |-> "benchmark", iterations |-> n, i |-> 0,
                    start |-> now, times |-> <<>>, results |-> <<>>,
                    memoryBefore |-> tfBytes, memoryReads |-> 1, calls |-> <<>>]
    /\ UNCHANGED <<monitorVars, logVars, demoVars, tfBytes, dom, now, workload, lastOp, lastArgs, ret>>

\* measureTime(fn, iterations) is entered: start is read, results = []
MeasureTimeEnter ==
    /\ bench.pc = "idle"
    /\ \E n \in 0..MaxIterations :
          bench' = [pc |-> "loop", kind |-> "measureTime", iterations |-> n, i |-> 0,
                    start |-> now, times |-> <<>>, results |-> <<>>,
                    memoryBefore |-> 0, memoryReads |-> 0, calls |-> <<>>]
    /\ UNCHANGED <<monitorVars, logVars, demoVars, tfBytes, dom, now, workload, lastOp, lastArgs, ret>>

\* a benchmark that samples tf.memory() anew at the top of every iteration
CallOperationSamplingMemory ==
    /\ bench.pc = "loop"
    /\ LoopContinues(bench.i, bench.iterations)
    /\ bench' = [bench EXCEPT !.pc = "operation",
                              !.start = IF bench.kind = "benchmark" THEN now ELSE @,
                              !.memoryBefore = IF bench.kind = "benchmark" THEN tfBytes ELSE @,
                              !.memoryReads = IF bench.kind = "benchmark" THEN @ + 1 ELSE @,
                              !.calls = Append(@, [start |-> now, end |-> -1])]
    /\ UNCHANGED <<monitorVars, logVars, demoVars, tfBytes, dom, now, workload, lastOp, lastArgs, ret>>

\* the loop goes round: (benchmark reads start and) the operation is called
CallOperation ==
    /\ bench.pc = "loop"
    /\ LoopContinues(bench.i, bench.iterations)
    /\ bench' = [bench EXCEPT !.pc = "operation",
                              !.start = IF bench.kind = "benchmark" THEN now ELSE @,
                              !.calls = Append(@, [start |-> now, end |-> -1])]
    /\ UNCHANGED <<monitorVars, logVars, demoVars, tfBytes, dom, now, workload, lastOp, lastArgs, ret>>

\* the operation returns: benchmark reads end and pushes end - start,
\* measureTime pushes the value returned; i++
OperationReturns ==
    /\ bench.pc = "operation"
    /\ \E run \in OperationRuns :
          /\ now' = now + run.duration
          /\ tfBytes' = tfBytes + run.bytes
          /\ bench' = [bench EXCEPT
                 !.pc = "loop",
                 !.i = @ + 1,
                 !.times = IF bench.kind = "benchmark"
                           THEN Append(@, now' - bench.start) ELSE @,
                 !.results = IF bench.kind = "measureTime"
                             THEN Append(@, run.value) ELSE @,
                 !.calls = [@ EXCEPT ![Len(@)] = [start |-> @.start, end |-> now',
                                                  value |-> run.value]]]
    /\ UNCHANGED <<monitorVars, logVars, demoVars, dom, workload, lastOp, lastArgs, ret>>

\* what a call of the operation may throw
OperationErrors ==
    {[error |-> "Error", message |-> "operation failed"],
     [error |-> "TypeError", message |-> "fn is not a function"]}

\* a loop body that catches what the operation throws and goes on to the next
\* iteration
OperationThrowsCaught ==
    /\ bench.pc = "operation"
    /\ \E d \in Durations, err \in OperationErrors :
          /\ now' = now + d
          /\ bench' = [bench EXCEPT !.pc = "loop", !.i = @ + 1,
                                    !.calls = [@ EXCEPT ![Len(@)] =
                                       [start |-> @.start, end |-> -1, thrown |-> err]]]
    /\ UNCHANGED <<monitorVars, logVars, demoVars, tfBytes, dom, workload, lastOp, lastArgs, ret>>

\* the operation throws: neither function catches, the caller gets the error
OperationThrows ==
    /\ bench.pc = "operation"
    /\ \E d \in Durations, err \in OperationErrors :
          /\ now' = now + d
          /\ bench' = [bench EXCEPT !.pc = "thrown",
                                    !.calls = [@ EXCEPT ![Len(@)] =
                                       [start |-> @.start, end |-> -1, thrown |-> err]]]
          /\ Called(bench.kind, [iterations |-> bench.iterations], err)
    /\ UNCHANGED <<monitorVars, logVars, demoVars, tfBytes, dom, workload>>

\* the loop is over: benchmark reads memoryAfter, reduces the times and returns
BenchmarkReturns ==
    /\ bench.pc = "loop"
    /\ bench.kind = "benchmark"
    /\ ~LoopContinues(bench.i, bench.iterations)
    /\ bench' = [bench EXCEPT !.pc = "returned", !.memoryReads = @ + 1]
    /\ Called("benchmark", [iterations |-> bench.iterations],
              BenchmarkResult(bench.times, bench.memoryBefore, tfBytes))
    /\ UNCHANGED <<monitorVars, logVars, demoVars, tfBytes, dom, now, workload>>

\* the loop is over: measureTime reads end and returns
MeasureTimeReturns ==
    /\ bench.pc = "loop"
    /\ bench.kind = "measureTime"
    /\ ~LoopContinues(bench.i, bench.iterations)
    /\ bench' = [bench EXCEPT !.pc = "returned"]
    /\ Called("measureTime", [iterations |-> bench.iterations],
              MeasureTimeResult(bench.start, now, bench.iterations, bench.results))
    /\ UNCHANGED <<monitorVars, logVars, demoVars, tfBytes, dom, now, workload>>

-----------------------------------------------------------------------------
(* TensorOperationsDemo: the demo methods *)

\* The five demo methods are synchronous: each runs on the browser's one
\* thread from its first statement to its return.  A demo method is a fixed
\* sequence of calls into TensorFlow.js, TensorUtils and Chart.js; any of
\* these calls may throw.  The model follows one method call statement by
\* statement, keeping for every tensor the call created the number of
\* dispose() calls made on it.

Demos == {"runTensorShape", "runDataType", "runMathematical", "runMemory", "runAdvanced"}

\* the title a demo gives its result
DemoTitle(name) ==
    CASE name = "runTensorShape" -> "Shape Operations"
      [] name = "runDataType" -> "Data Type Conversions"
      [] name = "runMathematical" -> "Mathematical Operations"
      [] name = "runMemory" -> "Memory Management"
      [] name = "runAdvanced" -> "Advanced Operations"

\* the first line of its content
DemoHeader(name) ==
    CASE name = "runTensorShape" -> "=== TENSOR SHAPE OPERATIONS ===\n\n"
      [] name = "runDataType" -> "=== DATA TYPE CONVERSIONS ===\n\n"
      [] name = "runMathematical" -> "=== MATHEMATICAL OPERATIONS ===\n\n"
      [] name = "runMemory" -> "=== MEMORY MANAGEMENT ===\n\n"
      [] name = "runAdvanced" -> "=== ADVANCED OPERATIONS ===\n\n"

\* how its catch block names it
DemoPhrase(name) ==
    CASE name = "runTensorShape" -> "shape operations"
      [] name = "runDataType" -> "data type conversions"
      [] name = "runMathematical" -> "mathematical operations"
      [] name = "runMemory" -> "memory management"
      [] name = "runAdvanced" -> "advanced operations"

\* One statement of a demo: the call it makes (op), the tensors it is about,
\* by order of creation in this run (arg), the shape of the tensor handed to
\* updateChart, and the label of the text the statement adds to content.
Step(op, arg, shape, says) == [op |-> op, arg |-> arg, shape |-> shape, says |-> says]

\* a tf factory or a tensor method returning a new tensor
Create(says) == Step("create", {}, <<>>, says)
\* a tensor and one derived from it, then content += `...`
Pair(says) == <<Create(""), Create(says)>>
Creates(n) == [i \in 1..n |-> Create("")]

\* the last statements of four of the demos
Finale(shown, shape, disposed) ==
    <<Step("updateChart", {shown}, shape, ""),
      Step("safeDispose", disposed, <<>>, ""),
      Step("performance.now", {}, <<>>, "Execution time"),
      Step("tf.memory", {}, <<>>, "Memory usage")>>

ShapeProgram ==
    Pair("asScalar") \o Pair("flatten") \o Pair("as1D") \o Pair("as2D") \o Pair("as3D")
    \o Pair("as4D") \o Pair("as5D") \o Pair("expandDims") \o Pair("squeeze")
    \o Finale(18, <<4>>, 1..18)

DataTypeProgram ==
    Pair("toFloat") \o Pair("toInt") \o Pair("toBool") \o Pair("reshape")
    \o Creates(2) \o <<Create("reshapeAs"), Create("dispose"),
                       Step("dispose", {12}, <<>>, "After: Memory freed")>>
    \o Finale(11, <<4>>, 1..11)

MathProgram ==
    Pair("cumsum") \o Pair("abs") \o Pair("sqrt") \o Pair("square")
    \o Creates(4) \o <<Create("Statistics")>>
    \o Creates(5) \o <<Create("Element-wise Operations")>>
    \o Finale(9, <<5>>, 1..19)

MemoryProgram ==
    <<Step("tf.memory", {}, <<>>, "Initial memory")>>
    \o Creates(10)
    \o <<Step("tf.memory", {}, <<>>, "After creating 10 tensors")>>
    \o [i \in 1..10 |-> Step("dispose", {i}, <<>>, "Disposed tensor")]
    \o <<Step("tf.memory", {}, <<>>, "After disposing tensors")>>
    \o Creates(4)
    \o <<Step("tf.memory", {}, <<>>, "After creating more tensors"),
         Step("safeDispose", 11..14, <<>>, "Used safeDispose to clean up tensors"),
         Step("tf.memory", {}, <<>>, "After safeDispose"),
         Step("memory.clear", {}, <<>>, ""),
         Step("tf.memory", {}, <<>>, "After clearing all memory"),
         Step("performance.now", {}, <<>>, "Execution time"),
         Step("tf.memory", {}, <<>>, "Final memory usage")>>

AdvancedProgram ==
    <<Create(""), Step("dataSync", {1}, <<>>, "Data Extraction"),
      Create(""), Create("Cloning"),
      Create(""), Create("Random Tensors"),
      Create(""), Create(""),
      Step("compareTensors", {6, 7}, <<>>, "Tensor Comparison"),
      Step("benchmark", {}, <<>>, "Performance Benchmark")>>
    \o Finale(4, <<3, 3>>, 1..7)

DemoProgram(name) ==
    CASE name = "runTensorShape" -> ShapeProgram
      [] name = "runDataType" -> DataTypeProgram
      [] name = "runMathematical" -> MathProgram
      [] name = "runMemory" -> MemoryProgram
      [] name = "runAdvanced" -> AdvancedProgram

\* tf.tensor([1, 2, 3, 4]): four float32 values
TensorBytes == 16
\* the iterations runAdvanced asks of benchmark
BenchmarkIterations == 5

\* no chart: the page has no 'tensor-chart' element
NoChart == [type |-> "none"]

\* initializeChart()
InitialChartOf(els) ==
    IF "tensor-chart" \in els
    THEN [type |-> "line", labels |-> <<>>,
          datasets |-> <<[label |-> "Tensor Data", data |-> <<>>]>>]
    ELSE NoChart

\* the number of values of a tensor of the given shape
RECURSIVE SizeOf(_)
SizeOf(shape) == IF shape = <<>> THEN 1 ELSE Head(shape) * SizeOf(Tail(shape))

\* The values of a tensor are TensorFlow.js's: value i of tensor t is <<t, i>>.
\* TensorUtils.tensorToChartData(tensor), for a tensor t of the given shape
TensorToChartData(t, shape) ==
    IF Len(shape) = 1
    THEN [type |-> "line",
          labels |-> [i \in 1..shape[1] |-> <<"Index ", i - 1>>],
          data |-> [i \in 1..shape[1] |-> <<t, i - 1>>]]
    ELSE IF Len(shape) = 2
    THEN [type |-> "bar",
          labels |-> [i \in 1..shape[2] |-> <<"Col ", i - 1>>],
          datasets |-> [r \in 1..shape[1] |->
                           [label |-> <<"Row ", r - 1>>,
                            data |-> [c \in 1..shape[2] |->
                                         <<t, (r - 1) * shape[2] + c - 1>>]]]]
    ELSE [type |-> "doughnut", labels |-> <<"Tensor Data">>, data |-> <<SizeOf(shape)>>]

\* updateChart(tensor): this.chart afterwards
UpdateChartOf(c, chartData) ==
    IF c.type = "none" THEN c
    ELSE IF chartData.type = "line"
    THEN [c EXCEPT !.labels = chartData.labels,
                   !.datasets[1].data = chartData.data,
                   !.datasets[1].label = "Tensor Values"]
    ELSE IF chartData.type = "bar"
    THEN [c EXCEPT !.type = "bar",
                   !.labels = chartData.labels,
                   !.datasets = chartData.datasets]
    ELSE c

\* tensor.dispose() on each of the tensors `which`
DisposeEach(ts, which) ==
    [i \in 1..Len(ts) |-> IF i \in which THEN ts[i] + 1 ELSE ts[i]]

\* a safeDispose without the isDisposed test
SafeDisposeUnchecked(ts, which) ==
    [i \in 1..Len(ts) |-> IF i \in which THEN ts[i] + 1 ELSE ts[i]]

\* TensorUtils.safeDispose(...): dispose() on those not yet disposed
SafeDispose(ts, which) ==
    [i \in 1..Len(ts) |-> IF i \in which /\ ts[i] = 0 THEN ts[i] + 1 ELSE ts[i]]

\* compareTensors makes diff, diff.square(), its mean, diff.abs(), its mean,
\* diff.abs() again and its max, and disposes none of them
CompareTensorsTensors == [i \in 1..7 |-> 0]

\* each call of the benchmarked closure makes tempTensor, tempTensor.square()
\* and its mean, and disposes the first and the last
BenchmarkTensors == [i \in 1..(3 * BenchmarkIterations) |-> IF i % 3 = 2 THEN 0 ELSE 1]

\* the tensors of the run after a statement that returned
TensorsAfter(step, ts) ==
    CASE step.op = "create" -> Append(ts, 0)
      [] step.op = "dispose" -> DisposeEach(ts, step.arg)
      [] step.op = "safeDispose" -> SafeDispose(ts, step.arg)
      [] step.op = "compareTensors" -> ts \o CompareTensorsTensors
      [] step.op = "benchmark" -> ts \o BenchmarkTensors
      [] OTHER -> ts

\* tf.memory().numBytes, as far as the tensors of the run make it up
NumBytesOf(ts) == TensorBytes * Cardinality({i \in 1..Len(ts) : ts[i] = 0})

\* A piece of content: a text of the source and the numbers formatted into it
Piece(says, values) == [says |-> says, values |-> values]

\* what a statement that returned adds to content
NarrativeOf(step, d, t) ==
    IF step.says = "" THEN <<>>
    ELSE IF step.op = "tf.memory"
    THEN <<Piece(step.says, <<ToFixed2(NumBytesOf(d.tensors), 1024)>>)>>
         \o IF step.says = "After creating 10 tensors"
            THEN <<Piece("Memory increase",
                         <<ToFixed2(NumBytesOf(d.tensors) - d.reads[1], 1024)>>)>>
            ELSE <<>>
    ELSE IF step.op = "performance.now"
    THEN <<Piece(step.says, <<ToFixed2(t - d.startTime, 1)>>)>>
    ELSE IF step.op = "dispose" /\ step.says = "Disposed tensor"
    THEN <<Piece(step.says, <<CHOOSE i \in step.arg : TRUE>>)>>
    ELSE <<Piece(step.says, <<>>)>>

\* what a statement throws when it fails: an Error of the library called
FailureOf(op) ==
    IF op = "create"
    THEN [error |-> "Error", message |-> "No backend found in registry."]
    ELSE [error |-> "TypeError", message |-> "Cannot read properties of null"]

NoError == [error |-> "none", message |-> ""]

\* a catch block that reports the demo and not the error
ErrorContentNoMessage(name, err) ==
    <<Piece("Error in ", <<>>), Piece(DemoPhrase(name), <<>>)>>

\* `Error in shape operations: ${error.message}`
ErrorContent(name, err) ==
    <<Piece("Error in ", <<>>), Piece(DemoPhrase(name), <<>>), Piece(": ", <<>>),
      Piece(err.message, <<>>)>>

\* no demo method is running
IdleDemo(n) ==
    [pc |-> "Idle", name |-> "", step |-> 0, startTime |-> 0, content |-> <<>>,
     tensors |-> <<>>, reads |-> <<>>, error |-> NoError, invocations |-> n, depth |-> 0]

\* this.addResult(title, content): results and the 'results' element afterwards
AddResultOf(rs, title, content, t) ==
    PushResult(rs, [title |-> title, content |-> content, timestamp |-> t])

\* the statement the running demo is at
CurrentStep == DemoProgram(demo.name)[demo.step]

\* a click on a demo's button: the handler calls the demo method, which reads
\* startTime and opens its try block
DemoEnter(name) ==
    /\ EventLoopIdle
    /\ demo.invocations < MaxInvocations
    /\ demo' = [pc |-> "Running", name |-> name, step |-> 1, startTime |-> now,
                content |-> <<Piece(DemoHeader(name), <<>>)>>, tensors |-> <<>>, reads |-> <<>>,
                error |-> NoError, invocations |-> demo.invocations + 1,
                depth |-> demo.depth + 1]
    /\ Called("performance.now", <<>>, "DOMHighResTimeStamp")
    /\ UNCHANGED <<monitorVars, logVars, benchVars, chart, sink, dom, now, workload>>

RunDemo == \E name \in Demos : DemoEnter(name)

\* the next statement of the try block returns
DemoStep ==
    /\ demo.pc = "Running"
    /\ demo.step <= Len(DemoProgram(demo.name))
    /\ LET step == CurrentStep
           t == IF step.op = "performance.now" THEN now + 1 ELSE now
       IN  /\ now' = t
           /\ demo' = [demo EXCEPT
                  !.step = @ + 1,
                  !.tensors = TensorsAfter(step, @),
                  !.reads = IF step.op = "tf.memory"
                            THEN Append(@, NumBytesOf(demo.tensors)) ELSE @,
                  !.content = @ \o NarrativeOf(step, demo, t)]
           /\ chart' = IF step.op = "updateChart"
                       THEN UpdateChartOf(chart,
                               TensorToChartData(<<demo.name, CHOOSE i \in step.arg : TRUE>>,
                                                 step.shape))
                       ELSE chart
           /\ Called(step.op, [tensors |-> step.arg], "returned")
    /\ UNCHANGED <<monitorVars, logVars, benchVars, sink, dom, workload>>

\* a handler that lets the error out: no catch block
DemoRaiseUncaught ==
    /\ demo.pc = "Running"
    /\ demo.step <= Len(DemoProgram(demo.name))
    /\ CurrentStep.op # "performance.now"
    /\ demo' = [demo EXCEPT !.pc = "Thrown", !.error = FailureOf(CurrentStep.op)]
    /\ Called(demo.name, <<>>, FailureOf(CurrentStep.op).message)
    /\ UNCHANGED <<monitorVars, logVars, benchVars, chart, sink, dom, now, workload>>

\* the next statement of the try block throws: the catch block runs
\* this.addResult('Error', `Error in ...: ${error.message}`)
DemoRaise ==
    /\ demo.pc = "Running"
    /\ demo.step <= Len(DemoProgram(demo.name))
    /\ CurrentStep.op # "performance.now"
    /\ LET err == FailureOf(CurrentStep.op)
       IN  /\ demo' = [demo EXCEPT !.pc = "Failed", !.error = err]
           /\ results' = AddResultOf(results, "Error", ErrorContent(demo.name, err), now)
           /\ resultsText' = UpdateResultsOf(resultsText, FormatResultsOf(results'), dom)
           /\ Called("addResult", [title |-> "Error", content |-> ErrorContent(demo.name, err)],
                     "undefined")
    /\ UNCHANGED <<monitorVars, benchVars, chart, sink, dom, now, workload>>

\* the try block reaches its last statement: this.addResult(title, content)
DemoSucceed ==
    /\ demo.pc = "Running"
    /\ demo.step = Len(DemoProgram(demo.name)) + 1
    /\ demo' = [demo EXCEPT !.pc = "Succeeded"]
    /\ results' = AddResultOf(results, DemoTitle(demo.name), demo.content, now)
    /\ resultsText' = UpdateResultsOf(resultsText, FormatResultsOf(results'), dom)
    /\ Called("addResult", [title |-> DemoTitle(demo.name), content |-> demo.content],
              "undefined")
    /\ UNCHANGED <<monitorVars, benchVars, chart, sink, dom, now, workload>>

\* the demo method and the handler return; the locals are gone
DemoReturn ==
    /\ demo.pc \in {"Succeeded", "Failed"}
    /\ demo' = [IdleDemo(demo.invocations) EXCEPT !.depth = demo.depth - 1]
    /\ Called(demo.name, <<>>, "undefined")
    /\ UNCHANGED <<monitorVars, logVars, benchVars, chart, sink, dom, now, workload>>

-----------------------------------------------------------------------------
(* ExportUtils *)

\* An optional argument is null or an object; objects carry type "object".
JsonNull == [type |-> "null"]
Truthy(v) == v.type # "null"

\* the object a caller gets from JSON.parse(performanceMonitor.exportData())
PerformanceDataOf(ms, t) ==
    [type |-> "object",
     summary |-> SummaryJSON(SummaryOf(ms)),
     metrics |-> WithIsoTimestamps(ms),
     exportTimestamp |-> IsoString(t)]

\* new Date().toISOString().replace(/[:.]/g, '-')
FileStamp(t) == <<"ISO", t, "[:.] -> -">>

\* `${date}`: Date.prototype.toString()
DateString(t) == <<"Date", t>>

\* (r.content.match(/Execution time:/g) || []).length
MatchCount(content) ==
    Cardinality({i \in DOMAIN content : content[i].says = "Execution time"})

\* a report that carries the latest result only
ReportOfLatestOnly(rs, perf, t) ==
    [title |-> "TensorFlow.js Learning Platform Report",
     timestamp |-> t,
     results |-> IF rs = <<>> THEN rs ELSE <<rs[Len(rs)]>>,
     performance |-> perf,
     summary |-> [totalResults |-> Len(rs),
                  totalOperations |-> Reduce([i \in 1..Len(rs) |-> MatchCount(rs[i].content)]),
                  averageExecutionTime |->
                      IF Truthy(perf) THEN perf.summary.averageExecutionTime ELSE 0]]

\* the report object exportReport builds at instant t
ReportOf(rs, perf, t) ==
    [title |-> "TensorFlow.js Learning Platform Report",
     timestamp |-> t,
     results |-> rs,
     performance |-> perf,
     summary |-> [totalResults |-> Len(rs),
                  totalOperations |-> Reduce([i \in 1..Len(rs) |-> MatchCount(rs[i].content)]),
                  averageExecutionTime |->
                      IF Truthy(perf) THEN perf.summary.averageExecutionTime ELSE 0]]

\* report.summary.averageExecutionTime.toFixed(2), in hundredths
FixedAverage(report) ==
    IF Truthy(report.performance)
    THEN ToFixed2(report.summary.averageExecutionTime.num,
                  report.summary.averageExecutionTime.den)
    ELSE ToFixed2(0, 1)

\* JSON.stringify(report, null, 2): the Dates become ISO texts
ReportJSON(report) ==
    Stringify([report EXCEPT !.timestamp = IsoString(@),
                             !.results = WithIsoTimestamps(@)])

\* the lines both text formats start with
ReportHead(report) ==
    <<Piece("Generated: ", <<DateString(report.timestamp)>>),
      Piece("Total Results: ", <<report.summary.totalResults>>),
      Piece("Total Operations: ", <<report.summary.totalOperations>>),
      Piece("Average Execution Time: ", <<FixedAverage(report)>>)>>

\* the performance section of both text formats
ReportPerformance(heading, perf) ==
    <<Piece(heading, <<>>),
      Piece("Total Operations: ", <<perf.summary.totalOperations>>),
      Piece("Average Execution Time: ",
            <<ToFixed2(perf.summary.averageExecutionTime.num,
                       perf.summary.averageExecutionTime.den)>>),
      Piece("Peak Memory Usage: ", <<ToFixed2(perf.summary.peakMemoryUsage, 1024)>>)>>

HtmlResult(result) ==
    <<Piece("<h3>", <<result.title>>),
      Piece("<p>Timestamp: ", <<DateString(result.timestamp)>>),
      Piece("<pre>", <<result.content>>)>>

\* exportHTMLReport: htmlContent
ReportHTML(report) ==
    <<Piece("<title>", <<report.title>>), Piece("<h1>", <<report.title>>)>>
    \o ReportHead(report)
    \o JoinRange([i \in 1..Len(report.results) |-> HtmlResult(report.results[i])],
                 <<>>, 1, Len(report.results))
    \o (IF Truthy(report.performance)
        THEN ReportPerformance("<h3>Performance Summary</h3>", report.performance)
        ELSE <<>>)
    \o <<Piece("</html>", <<>>)>>

TextResult(result) ==
    <<Piece("=== ", <<result.title>>),
      Piece("Timestamp: ", <<DateString(result.timestamp)>>),
      Piece("content", <<result.content>>)>>

\* exportTextReport: textContent
ReportText(report) ==
    <<Piece("title", <<report.title>>)>>
    \o ReportHead(report)
    \o JoinRange([i \in 1..Len(report.results) |-> TextResult(report.results[i])],
                 <<>>, 1, Len(report.results))
    \o (IF Truthy(report.performance)
        THEN ReportPerformance("=== PERFORMANCE SUMMARY ===", report.performance)
        ELSE <<>>)

\* downloadFile(new Blob([content], { type: mime }), filename)
DownloadOf(content, mime, filename) ==
    [type |-> "file", content |-> content, mime |-> mime, filename |-> filename]

\* what exportReport(results, performanceData, format) hands to downloadFile
ExportReportOf(rs, perf, format, t) ==
    LET report == ReportOf(rs, perf, t)
    IN  CASE format = "html" ->
               DownloadOf(ReportHTML(report), "text/html",
                          [base |-> "report-", stamp |-> <<FileStamp(t)>>,
                           ext |-> ".html"])
          [] format = "txt" ->
               DownloadOf(ReportText(report), "text/plain",
                          [base |-> "report-", stamp |-> <<FileStamp(t)>>,
                           ext |-> ".txt"])
          [] OTHER ->
               DownloadOf(ReportJSON(report), "application/json",
                          [base |-> "report-", stamp |-> <<FileStamp(t)>>,
                           ext |-> ".json"])

\* the formats a caller may name; any other than 'html' and 'txt' gives JSON
ReportFormats == {"json", "html", "txt", "pdf"}

\* the performance data a caller may pass: none, or a monitor's export
ReportPerformanceData ==
    {JsonNull, PerformanceDataOf(<<NewMetric("Shape Operations", 5, 100, 150, 0)>>, 1)}

\* ExportUtils.exportReport(tensorDemo.results, performanceData, format)
ExportReport ==
    /\ EventLoopIdle
    /\ \E perf \in ReportPerformanceData, format \in ReportFormats :
          /\ sink' = ExportReportOf(results, perf, format, now)
          /\ Called("exportReport", [performanceData |-> perf, format |-> format],
                    "undefined")
    /\ UNCHANGED <<monitorVars, logVars, benchVars, chart, demo, dom, now, workload>>

\* The result logs handed to the exports: up to MaxReportResults entries as
\* addResult builds them, of demos that succeeded and of demos that failed.
ReportEntryOf(kind, t) ==
    IF kind = "Error"
    THEN [title |-> "Error",
          content |-> ErrorContent("runAdvanced", FailureOf("create")),
          timestamp |-> t]
    ELSE [title |-> DemoTitle(kind),
          content |-> <<Piece(DemoHeader(kind), <<>>),
                        Piece("Execution time", <<ToFixed2(t, 1)>>),
                        Piece("Memory usage", <<ToFixed2(0, 1024)>>)>>,
          timestamp |-> t]

ReportLogs ==
    UNION {{[i \in 1..n |-> ReportEntryOf(kinds[i], i)] : kinds \in [1..n -> {"runTensorShape", "runMemory", "Error"}]} :
              n \in 0..MaxReportResults}

\* the keys of the rows exportPerformanceData builds, in Object.keys order
MetricColumns ==
    <<"operation", "executionTime", "memoryBefore", "memoryAfter", "memoryDelta",
      "timestamp">>

\* exportCSV: csvContent, the header line then one line per row; a value that
\* is a string is wrapped in double quotes, any other is written as it is
CsvOf(data) ==
    <<MetricColumns>>
    \o [i \in 1..Len(data) |->
          [j \in 1..Len(MetricColumns) |->
              LET value == data[i][MetricColumns[j]]
              IN  [quoted |-> MetricColumns[j] \in {"operation", "timestamp"},
                   value |-> value]]]

\* what exportPerformanceData(performanceData, format) hands to downloadFile;
\* exportCSV logs 'No data to export' and returns when there is no row
ExportPerformanceDataOf(perf, format, t, before) ==
    IF format = "csv"
    THEN IF Len(perf.metrics) = 0
         THEN before
         ELSE DownloadOf(CsvOf(perf.metrics), "text/csv",
                         [base |-> "performance-", stamp |-> <<FileStamp(t)>>,
                          ext |-> ".csv"])
    ELSE DownloadOf(Stringify(perf), "application/json",
                    [base |-> "performance-", stamp |-> <<FileStamp(t)>>,
                     ext |-> ".json"])

\* the monitor exports handed over: 0..MaxSnapshot metrics in recorder order
SnapshotOf(n) ==
    PerformanceDataOf([i \in 1..n |->
                          LET a == PatternArgs(1, i)
                          IN  NewMetric(a.operation, a.executionTime,
                                        a.memoryBefore, a.memoryAfter, i)],
                      n + 1)

\* ExportUtils.exportPerformanceData(JSON.parse(monitor.exportData()), format)
ExportPerformanceData ==
    /\ EventLoopIdle
    /\ \E n \in 0..MaxSnapshot, format \in {"csv", "json"} :
          /\ sink' = ExportPerformanceDataOf(SnapshotOf(n), format, now, sink)
          /\ Called("exportPerformanceData",
                    [performanceData |-> SnapshotOf(n), format |-> format],
                    "undefined")
    /\ UNCHANGED <<monitorVars, logVars, benchVars, chart, demo, dom, now, workload>>

\* exportResults(): the page's button, with its own Blob and link
ExportResults ==
    /\ EventLoopIdle
    /\ sink' = DownloadOf(Stringify(WithIsoTimestamps(results)), "application/json",
                          [base |-> "tensor-operations-results", stamp |-> <<>>,
                           ext |-> ".json"])
    /\ Called("exportResults", <<>>, "undefined")
    /\ UNCHANGED <<monitorVars, logVars, benchVars, chart, demo, dom, now, workload>>

\* the arguments a caller passes to safeDispose: null, undefined, or one of
\* its tensors (live or disposed, the same one any number of times)
DisposeArgs ==
    {[type |-> "null"], [type |-> "undefined"]}
    \cup {[type |-> "tensor", id |-> i] : i \in 1..MaxTensors}

DisposeArgLists == UNION {[1..n -> DisposeArgs] : n \in 0..MaxArgs}

\* tensors.forEach(tensor => { if (tensor && !tensor.isDisposed) tensor.dispose() })
\* over the arguments from `from` on, in order
RECURSIVE SafeDisposeArgs(_, _, _)
SafeDisposeArgs(ts, args, from) ==
    IF from > Len(args) THEN ts
    ELSE SafeDisposeArgs(IF args[from].type = "tensor"
                         THEN SafeDispose(ts, {args[from].id})
                         ELSE ts,
                         args, from + 1)

\* t.dispose() by the caller itself, on a tensor it has not disposed yet
TensorDispose ==
    /\ EventLoopIdle
    /\ \E i \in 1..Len(demo.tensors) :
          /\ demo.tensors[i] = 0
          /\ demo' = [demo EXCEPT !.tensors = DisposeEach(demo.tensors, {i})]
          /\ Called("dispose", <<[type |-> "tensor", id |-> i]>>, "undefined")
    /\ UNCHANGED <<monitorVars, logVars, benchVars, chart, sink, dom, now, workload>>

\* TensorUtils.safeDispose(...args)
SafeDisposeCall ==
    /\ EventLoopIdle
    /\ \E args \in DisposeArgLists :
          /\ demo' = [demo EXCEPT !.tensors = SafeDisposeArgs(demo.tensors, args, 1)]
          /\ Called("safeDispose", args, "undefined")
    /\ UNCHANGED <<monitorVars, logVars, benchVars, chart, sink, dom, now, workload>>

\* the shapes of the tensors handed to updateChart: rank 1, 2 and 3
ChartShapes == UNION {[1..rank -> 1..MaxDim] : rank \in 1..3}

\* tensorDemo.updateChart(tensor)
UpdateChart ==
    /\ EventLoopIdle
    /\ \E t \in 1..MaxTensors, shape \in ChartShapes :
          /\ chart' = UpdateChartOf(chart, TensorToChartData(t, shape))
          /\ Called("updateChart", [tensor |-> t, shape |-> shape], "undefined")
    /\ UNCHANGED <<monitorVars, logVars, benchVars, demo, sink, dom, now, workload>>

\* The texts handed to createTensorFromInput: text that is not JSON, or the
\* JSON of a flat array of 1..MaxDim * MaxDim numbers.
TensorInputs ==
    {[parses |-> FALSE, size |-> 0]}
    \cup {[parses |-> TRUE, size |-> n] : n \in 1..(MaxDim * MaxDim)}

\* The shape argument after shape.split(',').map(s => parseInt(s.trim())): the
\* dimensions; <<>> stands for no shape (null or '', both falsy).
ShapeInputs == {<<>>} \cup ChartShapes

\* TensorUtils.createTensorFromInput(input, shape): the tensor returned, or
\* the Error thrown from the catch block around JSON.parse and tf.tensor
CreateTensorFromInputOf(input, shape) ==
    IF ~input.parses
    THEN [type |-> "error", error |-> "Error",
          message |-> <<"Invalid tensor input: ", "JSON.parse's message">>]
    ELSE IF shape = <<>>
    THEN [type |-> "tensor", shape |-> <<input.size>>, size |-> input.size]
    ELSE IF SizeOf(shape) # input.size
    THEN [type |-> "error", error |-> "Error",
          message |-> <<"Invalid tensor input: ", "tf.tensor's message">>]
    ELSE [type |-> "tensor", shape |-> shape, size |-> input.size]

\* a call of createTensorFromInput by the page's code; no method of the
\* orchestrator calls it
CreateTensorFromInput ==
    /\ EventLoopIdle
    /\ \E input \in TensorInputs, shape \in ShapeInputs :
          Called("createTensorFromInput", [input |-> input, shape |-> shape],
                 CreateTensorFromInputOf(input, shape))
    /\ UNCHANGED <<monitorVars, logVars, benchVars, demoVars, dom, now, workload>>

-----------------------------------------------------------------------------
(* Specifications *)

InitMonitor ==
    /\ metrics = <<>>
    /\ isMonitoring = FALSE
    /\ updateInterval = Null
    /\ display = InitialDisplay
    /\ recorded = <<>>
    /\ exported = NoExport
    /\ timers = {}
    /\ now = 0
    /\ lastOp = "constructor"
    /\ lastArgs = <<>>
    /\ ret = "undefined"

InitDemo ==
    /\ results = <<>>
    /\ resultsText = <<>>

InitBenchIdle ==
    /\ bench = [pc |-> "idle"]
    /\ tfBytes = 0

\* new TensorOperationsDemo(), no method called yet
InitOrchestrator ==
    /\ chart = InitialChartOf(dom)
    /\ sink = NoDownload
    /\ demo = IdleDemo(0)

\* a short session using the whole PerformanceMonitor
Init ==
    /\ InitMonitor
    /\ InitDemo
    /\ InitBenchIdle
    /\ dom \in MonitorPages
    /\ InitOrchestrator
    /\ workload = 0

Next ==
    \/ Start
    \/ Stop
    \/ Tick
    \/ RecordMetric
    \/ GetSummary
    \/ Clear
    \/ ExportData
    \/ MutateSnapshot

Spec == Init /\ [][Next]_vars

\* a long session of the recorder, running past its capacity
InitCapacity ==
    /\ InitMonitor
    /\ InitDemo
    /\ InitBenchIdle
    /\ dom = {"execution-time"}
    /\ InitOrchestrator
    /\ workload \in 1..MaxWorkload

NextCapacity ==
    \/ RecordMetricLong
    \/ GetSummary
    \/ Clear

SpecCapacity == InitCapacity /\ [][NextCapacity]_vars

\* a session of the result log
InitLog ==
    /\ InitMonitor
    /\ InitDemo
    /\ InitBenchIdle
    /\ dom \in {{}, {"results"}}
    /\ InitOrchestrator
    /\ workload \in 1..MaxWorkload

NextLog ==
    \/ AddResult
    \/ FormatResults
    \/ ClearResults

SpecLog == InitLog /\ [][NextLog]_vars

\* one call of measureTime or benchmark, from any of a few readings of the
\* clock and of the tensor memory
InitBench ==
    /\ InitMonitor
    /\ InitDemo
    /\ bench = [pc |-> "idle"]
    /\ tfBytes \in Allocations
    /\ dom = {}
    /\ InitOrchestrator
    /\ workload = 0

NextBench ==
    \/ BenchmarkEnter
    \/ MeasureTimeEnter
    \/ CallOperation
    \/ OperationReturns
    \/ OperationThrows
    \/ BenchmarkReturns
    \/ MeasureTimeReturns

SpecBench == InitBench /\ [][NextBench]_vars

\* a session of the demo page once it has loaded: the monitor was started by
\* the DOMContentLoaded listener and its timer is running
InitDemoSession ==
    /\ metrics = <<>>
    /\ isMonitoring = TRUE
    /\ updateInterval = 1
    /\ timers = {1}
    /\ display = InitialDisplay
    /\ recorded = <<>>
    /\ exported = NoExport
    /\ now = 0
    /\ lastOp = "start"
    /\ lastArgs = <<>>
    /\ ret = "undefined"
    /\ InitDemo
    /\ InitBenchIdle
    /\ dom = {"results", "tensor-chart"}
    /\ InitOrchestrator
    /\ workload = 0

NextDemo ==
    \/ Tick
    \/ RunDemo
    \/ DemoStep
    \/ DemoRaise
    \/ DemoSucceed
    \/ DemoReturn

SpecDemo == InitDemoSession /\ [][NextDemo]_vars

\* the same session, where a callback that has started goes on to its end
SpecDemoFair ==
    /\ SpecDemo
    /\ WF_vars(DemoStep \/ DemoRaise \/ DemoSucceed)
    /\ WF_vars(DemoReturn)

\* exports of a result log
InitExport ==
    /\ InitMonitor
    /\ results \in ReportLogs
    /\ resultsText = <<>>
    /\ InitBenchIdle
    /\ dom = {}
    /\ InitOrchestrator
    /\ workload = 0

NextExport ==
    \/ ExportReport
    \/ ExportPerformanceData
    \/ ExportResults

SpecExport == InitExport /\ [][NextExport]_vars

\* a caller holding MaxTensors live tensors, disposing them by hand and
\* through safeDispose
InitDispose ==
    /\ InitMonitor
    /\ InitDemo
    /\ InitBenchIdle
    /\ dom = {}
    /\ chart = NoChart
    /\ sink = NoDownload
    /\ demo = [IdleDemo(0) EXCEPT !.tensors = [i \in 1..MaxTensors |-> 0]]
    /\ workload = 0

NextDispose ==
    \/ TensorDispose
    \/ SafeDisposeCall

SpecDispose == InitDispose /\ [][NextDispose]_vars

\* a page with or without the chart canvas, whose code builds tensors from
\* text and visualises tensors
InitChart ==
    /\ InitMonitor
    /\ InitDemo
    /\ InitBenchIdle
    /\ dom \in {{}, {"tensor-chart"}}
    /\ InitOrchestrator
    /\ workload = 0

NextChart ==
    \/ UpdateChart
    \/ CreateTensorFromInput

SpecChart == InitChart /\ [][NextChart]_vars

-----------------------------------------------------------------------------
(* Properties of the PerformanceMonitor *)

\* the metrics recordMetric built since the last clear that are to be retained:
\* the last Min(N, 100) of the N built
Retained == 
    LET N == Len(recorded)
    IN  [i \in 1..Min(N, Capacity) |-> recorded[N - Min(N, Capacity) + i]]

\* C1: after N recordMetric calls with no clear in between the recorder holds
\* exactly min(N, 100) metrics, the most recent ones in insertion order, and it
\* never holds more than 100.
C1_BoundedFifo ==
    /\ Len(metrics) = Min(Len(recorded), Capacity)
    /\ Len(metrics) <= Capacity
    /\ metrics = Retained
    /\ \A i \in 1..(Len(metrics) - 1) : metrics[i].timestamp < metrics[i + 1].timestamp

C1_Witness ==
    /\ lastOp = "recordMetric"
    /\ Len(recorded) > Capacity + 1
    /\ Len(metrics) = Capacity

\* sums and maximum over the retained metrics, by position in the history
RetainedFrom == Len(recorded) - Min(Len(recorded), Capacity)

RECURSIVE SumExecutionTime(_, _)
SumExecutionTime(lo, hi) ==
    IF lo > hi THEN 0
    ELSE IF lo = hi THEN recorded[lo].executionTime
    ELSE SumExecutionTime(lo, (lo + hi) \div 2) + SumExecutionTime((lo + hi) \div 2 + 1, hi)

RECURSIVE SumMemoryGrowth(_, _)
SumMemoryGrowth(lo, hi) ==
    IF lo > hi THEN 0
    ELSE IF lo = hi THEN recorded[lo].memoryAfter - recorded[lo].memoryBefore
    ELSE SumMemoryGrowth(lo, (lo + hi) \div 2) + SumMemoryGrowth((lo + hi) \div 2 + 1, hi)

PeakMemoryAfter ==
    CHOOSE p \in {Retained[i].memoryAfter : i \in DOMAIN Retained} :
        \A i \in DOMAIN Retained : Retained[i].memoryAfter <= p

\* C2: on a non-empty recorder getSummary returns the count, the mean execution
\* time, the summed memory growth and the peak memoryAfter of the retained
\* metrics; evicted metrics count for nothing.
C2_SummaryOfRetained ==
    (lastOp = "getSummary" /\ Len(metrics) > 0) =>
        LET n == Len(Retained)
        IN  /\ ret.totalOperations = n
            /\ ret.averageExecutionTime.den # 0
            /\ ret.averageExecutionTime.num * n
                  = SumExecutionTime(RetainedFrom + 1, Len(recorded))
                       * ret.averageExecutionTime.den
            /\ ret.totalMemoryUsed = SumMemoryGrowth(RetainedFrom + 1, Len(recorded))
            /\ ret.peakMemoryUsage = PeakMemoryAfter

\* a summary taken after the recorder evicted the metric that held the peak
C2_Witness ==
    /\ lastOp = "getSummary"
    /\ Len(recorded) > Capacity
    /\ recorded[1].memoryAfter > ret.peakMemoryUsage
    /\ ret.totalOperations = Capacity

\* C3: clear leaves no metric, and getSummary on an empty recorder returns the
\* all-zero summary (a value, not an error).
C3_ClearThenZeroSummary ==
    /\ lastOp = "clear" => Len(metrics) = 0
    /\ (lastOp = "getSummary" /\ Len(metrics) = 0) =>
          /\ DOMAIN ret = {"totalOperations", "averageExecutionTime",
                           "totalMemoryUsed", "peakMemoryUsage"}
          /\ ret.totalOperations = 0
          /\ ret.averageExecutionTime = 0
          /\ ret.totalMemoryUsed = 0
          /\ ret.peakMemoryUsage = 0

\* clear emptied a recorder that held metrics
C3_Witness ==
    /\ lastOp = "clear"
    /\ Len(metrics) = 0
    /\ now > 1

\* C4: getSummary changes neither the metrics, nor the monitoring flag, nor the
\* timer, and called again right after itself it returns an equal summary.
C4_GetSummaryPure ==
    [][lastOp' = "getSummary" =>
          /\ metrics' = metrics
          /\ isMonitoring' = isMonitoring
          /\ updateInterval' = updateInterval
          /\ timers' = timers
          /\ lastOp = "getSummary" => ret' = ret]_vars

C4_Witness ==
    /\ lastOp = "getSummary"
    /\ isMonitoring
    /\ updateInterval # Null
    /\ Len(metrics) > 1

\* C5: what exportData returned does not change when the recorder records or
\* clears afterwards, and changing it changes neither the recorder's metrics
\* nor a later summary.
C5_SnapshotIsACopy ==
    [][/\ (exported.type # "none" /\ lastOp' # "exportData") =>
              SnapshotView' = SnapshotView
       /\ lastOp' = "mutateSnapshot" =>
              /\ metrics' = metrics
              /\ SummaryOf(metrics') = SummaryOf(metrics)]_vars

\* a snapshot was taken, the recorder recorded again, the caller changed its snapshot
C5_Witness ==
    /\ lastOp = "mutateSnapshot"
    /\ exported.type = "string"
    /\ Len(exported.text.metrics) > 0
    /\ Len(metrics) > Len(exported.text.metrics)

-----------------------------------------------------------------------------
(* Properties of the result log *)

IsPrefix(xs, ys) == Len(xs) <= Len(ys) /\ \A i \in 1..Len(xs) : ys[i] = xs[i]

\* C6: between clears the result log only grows at its end: every step other
\* than clearResults keeps all entries, unchanged and in order, and addResult
\* adds exactly the new entry last, however long the log is.
C6_AppendOnly ==
    [][/\ lastOp' # "clearResults" => IsPrefix(results, results')
       /\ lastOp' = "addResult" =>
             /\ Len(results') = Len(results) + 1
             /\ results'[Len(results')].title = lastArgs'.title
             /\ results'[Len(results')].content = lastArgs'.content]_vars

\* a log of more than 100 entries that still starts with its first entry
C6_Witness ==
    /\ lastOp = "addResult"
    /\ Len(results) > Capacity
    /\ results[1].timestamp = 0

\* the text the log is to be rendered as, piece by piece
ExpectedPiece(i) ==
    LET entry == results[(i - 1) \div 5 + 1]
        k == (i - 1) % 5
    IN  IF k = 0 THEN "=== "
        ELSE IF k = 1 THEN entry.title
        ELSE IF k = 2 THEN " ===\n"
        ELSE IF k = 3 THEN entry.content
        ELSE "\n\n"

\* C7: formatResults returns the entries' blocks ('=== <title> ===', newline,
\* content, blank line) concatenated in insertion order, changes nothing, and
\* called again right after itself returns the same text.
C7_FormatResultsStable ==
    /\ [](lastOp = "formatResults" =>
             /\ Len(ret) = 5 * Len(results)
             /\ \A i \in 1..Len(ret) : ret[i] = ExpectedPiece(i))
    /\ [][lastOp' = "formatResults" =>
             /\ results' = results
             /\ resultsText' = resultsText
             /\ lastOp = "formatResults" => ret' = ret]_vars

C7_Witness ==
    /\ lastOp = "formatResults"
    /\ Len(results) > 1
    /\ results[1].title # results[2].title

\* C8: clearResults leaves no entry, formatResults on the cleared log returns
\* the empty text, and the results element (on a page that has one) shows the
\* empty text.
C8_ClearResultsEmpties ==
    /\ lastOp = "clearResults" =>
          /\ Len(results) = 0
          /\ FormatResultsOf(results) = <<>>
          /\ "results" \in dom => resultsText = <<>>
    /\ (lastOp = "formatResults" /\ Len(results) = 0) => ret = <<>>

\* the log was cleared after entries had been appended and displayed
C8_Witness ==
    /\ lastOp = "clearResults"
    /\ now > 1
    /\ "results" \in dom
    /\ resultsText = <<>>

-----------------------------------------------------------------------------
(* Properties of measureTime and benchmark *)

Finished == bench.pc \in {"returned", "thrown"}

\* C9: benchmark(operation, 0) fails with an InvalidArgument error, calls the
\* operation not once, and returns no result holding NaN or an infinity.
C9_ZeroIterationsRejected ==
    (Finished /\ bench.kind = "benchmark" /\ bench.iterations = 0) =>
        /\ Len(bench.calls) = 0
        /\ bench.pc = "thrown"
        /\ ret.error = "InvalidArgument"

\* the part of C9 the code keeps: with 0 iterations the operation is never called
C9_ZeroIterationsNoCall ==
    (bench.pc # "idle" /\ bench.iterations = 0) => Len(bench.calls) = 0

\* C10: benchmark(operation, n), n >= 1, with an operation that does not throw,
\* calls the operation exactly n times, each call starting after the one before
\* it returned, and returns n times, the k-th being the k-th call's.
\* measureTime likewise calls fn n times and returns its n values in call order.
C10_SequentialIterations ==
    /\ bench.pc # "idle" =>
          /\ Len(bench.calls) <= bench.iterations
          /\ \A k \in 1..Len(bench.calls) :
                (bench.calls[k].end = -1) =>
                    (k = Len(bench.calls) /\ bench.pc \in {"operation", "thrown"})
          /\ \A k \in 1..(Len(bench.calls) - 1) :
                bench.calls[k].end <= bench.calls[k + 1].start
    /\ (bench.pc = "returned" /\ bench.iterations >= 1) =>
          /\ Len(bench.calls) = bench.iterations
          /\ bench.kind = "benchmark" =>
                /\ Len(ret.times) = bench.iterations
                /\ \A k \in 1..bench.iterations :
                      ret.times[k] = bench.calls[k].end - bench.calls[k].start
          /\ bench.kind = "measureTime" =>
                /\ Len(ret.results) = bench.iterations
                /\ \A k \in 1..bench.iterations :
                      ret.results[k] = bench.calls[k].value

\* benchmark returned after 5 calls that took different times
C10_Witness ==
    /\ bench.pc = "returned"
    /\ bench.kind = "benchmark"
    /\ bench.iterations = 5
    /\ Len(ret.times) = 5
    /\ ret.times[1] # ret.times[5]

\* C11: when the k-th call of the operation throws inside measureTime(fn, n) or
\* benchmark(operation, n), the operation has been called exactly k times and
\* is never called again, the caller gets the very error the operation threw,
\* and it gets no result object: no times, no per-call results.
C11_FailFast ==
    bench.pc # "idle" =>
        \A k \in 1..Len(bench.calls) :
            "thrown" \in DOMAIN bench.calls[k] =>
                /\ k = Len(bench.calls)
                /\ k = bench.i + 1
                /\ k <= bench.iterations
                /\ bench.pc = "thrown"
                /\ lastOp = bench.kind
                /\ ret = bench.calls[k].thrown
                /\ DOMAIN ret \cap {"times", "results", "averageTime", "totalTime"} = {}

\* the third of five calls made by measureTime threw a TypeError
C11_Witness ==
    /\ bench.pc = "thrown"
    /\ bench.kind = "measureTime"
    /\ bench.iterations = 5
    /\ Len(bench.calls) = 3
    /\ Len(bench.results) = 2
    /\ ret.error = "TypeError"

-----------------------------------------------------------------------------
(* Properties of the demo methods *)

\* the statement labels a demo puts into its content, in any run that succeeds
LabelsOf(name) ==
    {DemoProgram(name)[i].says : i \in 1..Len(DemoProgram(name))} \ {""}

\* C12: when a statement of a demo method throws, that call appends exactly
\* one entry to the result log; its title is 'Error', its content holds the
\* message of the error thrown and it is not titled with the demo's name; the
\* call appends nothing after it.
C12_FailureLogged ==
    [][/\ (demo.pc = "Running" /\ demo'.error # NoError) =>
             /\ Len(results') = Len(results) + 1
             /\ SubSeq(results', 1, Len(results)) = results
             /\ results'[Len(results')].title = "Error"
             /\ results'[Len(results')].title # DemoTitle(demo.name)
             /\ \E i \in DOMAIN results'[Len(results')].content :
                   results'[Len(results')].content[i].says = demo'.error.message
       /\ demo.pc = "Failed" => results' = results]_vars

\* the third statement of runMathematical threw, in the second demo run
C12_Witness ==
    /\ demo.pc = "Failed"
    /\ demo.name = "runMathematical"
    /\ demo.step = 3
    /\ demo.invocations = 2
    /\ results[Len(results)].title = "Error"

\* C13: when a statement of a demo method throws, every tensor the call had
\* created has had dispose() called on it exactly once by the time the call is
\* over.
C13_FailureReleasesAll ==
    demo.pc = "Failed" => \A i \in 1..Len(demo.tensors) : demo.tensors[i] = 1

\* C14: when a demo method succeeds, every tensor created during the call, the
\* ones made inside compareTensors and the benchmarked closure included, has
\* had dispose() called on it exactly once by the time the result is appended.
C14_SuccessReleasesAll ==
    demo.pc = "Succeeded" => \A i \in 1..Len(demo.tensors) : demo.tensors[i] = 1

\* C15: every demo call that succeeds records one metric, so with no clear
\* the monitor holds min(k, 100) metrics after k successful calls.  (The log
\* is not cleared in these sessions: its entries not titled 'Error' are the
\* successful calls.)
C15_SuccessRecorded ==
    demo.pc = "Idle" =>
        Len(metrics) = Min(Cardinality({i \in 1..Len(results) : results[i].title # "Error"}),
                           Capacity)

\* C16: a demo call that succeeds appends exactly one entry to the result log,
\* titled with the demo's title and holding the narrative: the header and the
\* text of every statement; it appends no 'Error' entry and nothing else
\* before or after.
C16_SuccessLogged ==
    [][/\ (demo.pc = "Running" /\ demo'.pc = "Succeeded") =>
             /\ Len(results') = Len(results) + 1
             /\ SubSeq(results', 1, Len(results)) = results
             /\ LET entry == results'[Len(results')]
                IN  /\ entry.title = DemoTitle(demo.name)
                    /\ entry.title # "Error"
                    /\ entry.content[1].says = DemoHeader(demo.name)
                    /\ \A label \in LabelsOf(demo.name) :
                          \E i \in DOMAIN entry.content : entry.content[i].says = label
       /\ (demo'.pc = "Running" /\ demo'.error = NoError) => results' = results
       /\ demo.pc = "Succeeded" => results' = results]_vars

\* runAdvanced succeeded as the second demo run
C16_Witness ==
    /\ demo.pc = "Succeeded"
    /\ demo.name = "runAdvanced"
    /\ Len(results) = 2
    /\ results[2].title = "Advanced Operations"

C18_AlwaysBackToIdle ==
    /\ [](demo.pc \in {"Idle", "Running", "Succeeded", "Failed"})
    /\ (demo.pc = "Running") ~> (demo.pc \in {"Succeeded", "Failed"})
    /\ (demo.pc \in {"Succeeded", "Failed"}) ~> (demo.pc = "Idle" /\ lastOp \in Demos)
    /\ []((demo.pc = "Idle" /\ demo.invocations < MaxInvocations) =>
             \A name \in Demos : ENABLED DemoEnter(name))

\* a demo that succeeded right after one that failed
C18_Witness ==
    /\ demo.pc = "Succeeded"
    /\ demo.invocations = 2
    /\ Len(results) = 2
    /\ results[1].title = "Error"
    /\ results[2].title = DemoTitle(demo.name)

\* C19: the timer's updateDisplay never runs while a demo method is running,
\* and no demo method starts while another is running: a tick happens only
\* with the orchestrator in Idle, before and after it.
C19_NoTickWhileRunning ==
    [][/\ demo'.depth <= 1
       /\ (display' # display \/ (lastOp' = "updateDisplay" /\ lastOp # "updateDisplay")) =>
             (demo.pc = "Idle" /\ demo'.pc = "Idle")
       /\ (demo.pc # "Idle" /\ demo'.pc = "Running") =>
             (demo.pc = "Running" /\ demo'.name = demo.name
                 /\ demo'.invocations = demo.invocations)]_vars

\* a tick between the first demo run and the second
C19_Witness ==
    /\ lastOp = "updateDisplay"
    /\ demo.pc = "Idle"
    /\ demo.invocations = 1
    /\ Len(results) = 1

-----------------------------------------------------------------------------
(* Properties of ExportUtils *)

IsResultTitle(piece) == piece.says \in {"<h3>", "=== "}
IsResultContent(piece) == piece.says \in {"<pre>", "content"}
IsPerformanceHeading(piece) ==
    piece.says \in {"<h3>Performance Summary</h3>", "=== PERFORMANCE SUMMARY ==="}
IsAverage(piece) == piece.says = "Average Execution Time: "

\* C20: exportReport(results, null, format) returns normally for every format
\* and hands downloadFile one file holding every result given, in order: as
\* JSON, the results array has the length and the entries of the input,
\* performance is null and summary.averageExecutionTime is 0; as HTML and as
\* text, there is one block per result, no performance section, and the
\* average is printed as 0.00.
C20_ReportWithoutPerformance ==
    (lastOp = "exportReport" /\ ~Truthy(lastArgs.performanceData)) =>
        /\ ret = "undefined"
        /\ sink.type = "file"
        /\ IF lastArgs.format \in {"html", "txt"}
           THEN /\ Len(SelectSeq(sink.content, IsResultTitle)) = Len(results)
                /\ \A i \in 1..Len(results) :
                      /\ SelectSeq(sink.content, IsResultTitle)[i].values
                            = <<results[i].title>>
                      /\ SelectSeq(sink.content, IsResultContent)[i].values
                            = <<results[i].content>>
                /\ SelectSeq(sink.content, IsPerformanceHeading) = <<>>
                /\ SelectSeq(sink.content, IsAverage)
                      = <<Piece("Average Execution Time: ", <<0>>)>>
           ELSE /\ sink.content.type = "string"
                /\ Len(sink.content.text.results) = Len(results)
                /\ \A i \in 1..Len(results) :
                      sink.content.text.results[i]
                         = [results[i] EXCEPT !.timestamp = IsoString(@)]
                /\ sink.content.text.performance = JsonNull
                /\ sink.content.text.summary.averageExecutionTime = 0

\* a text report of two results, a demo's and an error, without performance data
C20_Witness ==
    /\ lastOp = "exportReport"
    /\ lastArgs.format = "txt"
    /\ ~Truthy(lastArgs.performanceData)
    /\ Len(results) = 2
    /\ results[1].title = "Shape Operations"
    /\ results[2].title = "Error"
    /\ sink.mime = "text/plain"

\* C21: exportPerformanceData(snapshot, 'csv') of a snapshot holding N metrics,
\* N = 0 included, hands the sink one text/csv payload: the header row
\* operation,executionTime,memoryBefore,memoryAfter,memoryDelta,timestamp and
\* exactly N rows after it, one per metric in recorder order.
C21_CsvHeaderAndRows ==
    (lastOp = "exportPerformanceData" /\ lastArgs.format = "csv") =>
        LET ms == lastArgs.performanceData.metrics
        IN  /\ sink.type = "file"
            /\ sink.mime = "text/csv"
            /\ Len(sink.content) = Len(ms) + 1
            /\ sink.content[1] = MetricColumns
            /\ \A i \in 1..Len(ms) :
                  \A j \in 1..Len(MetricColumns) :
                      sink.content[i + 1][j].value = ms[i][MetricColumns[j]]

\* C22: every file handed to the sink, by exportReport, exportPerformanceData
\* or the page's exportResults, has a filename that embeds the export-time ISO
\* timestamp with ':' and '.' replaced by '-'.
C22_FilenameEmbedsStamp ==
    sink.type = "file" => sink.filename.stamp = <<FileStamp(now)>>

\* C23: through any sequence of start() and stop() at most one interval timer
\* is active, isMonitoring is true exactly when a handle is held (the handle of
\* the one active timer), start() while monitoring and stop() while not
\* monitoring change nothing of the monitor, and a timer-driven updateDisplay
\* tick happens only while monitoring: none after stop() until the next start().
C23_OneTimer ==
    /\ [](/\ Cardinality(timers) <= 1
          /\ isMonitoring <=> updateInterval # Null
          /\ timers = IF isMonitoring THEN {updateInterval} ELSE {})
    /\ [][((lastOp' = "start" /\ isMonitoring) \/ (lastOp' = "stop" /\ ~isMonitoring))
              => UNCHANGED <<monitorVars, dom>>]_vars
    /\ [][lastOp' = "updateDisplay" => isMonitoring /\ timers # {}]_vars

\* stopped after a tick painted the bar, no timer left behind
C23_Witness ==
    /\ lastOp = "stop"
    /\ ~isMonitoring
    /\ updateInterval = Null
    /\ timers = {}
    /\ display.barClass # "progress-bar"

\* tensor i is among the arguments
NamedIn(args, i) ==
    \E k \in 1..Len(args) : args[k].type = "tensor" /\ args[k].id = i

\* C24: safeDispose(t1..tn) returns without raising after exactly one dispose
\* call on each argument that is a live tensor, however often it is named, and
\* none on null, undefined and already-disposed arguments; a second
\* safeDispose with the same arguments performs no dispose call at all.
C24_SafeDisposeOnce ==
    /\ [][lastOp' = "safeDispose" =>
             /\ ret' = "undefined"
             /\ \A i \in 1..MaxTensors :
                   demo'.tensors[i] =
                      IF NamedIn(lastArgs', i) /\ demo.tensors[i] = 0
                      THEN 1
                      ELSE demo.tensors[i]]_vars
    /\ [][(lastOp = "safeDispose" /\ lastOp' = "safeDispose" /\ lastArgs' = lastArgs)
             => demo'.tensors = demo.tensors]_vars

\* safeDispose(t1, null, t1) with t1 live and t2 disposed by hand before
C24_Witness ==
    /\ lastOp = "safeDispose"
    /\ lastArgs = <<[type |-> "tensor", id |-> 1], [type |-> "null"],
                    [type |-> "tensor", id |-> 1]>>
    /\ demo.tensors = <<1, 1>>

\* C25: after every updateDisplay run, a timer tick or the one clear() makes,
\* the execution-time text of the page is the average execution time of
\* getSummary() for the recorder's current metrics, written with two decimals;
\* that is 0 for the empty recorder, right after clear() included.
C25_DisplayedAverage ==
    (lastOp \in {"updateDisplay", "clear"} /\ "execution-time" \in dom) =>
        LET avg == SummaryOf(metrics).averageExecutionTime
        IN  display.execText =
               <<IF Len(metrics) = 0 THEN ToFixed2(0, 1) ELSE ToFixed2(avg.num, avg.den),
                 "ms">>

\* C26: after updateChart(t) for a tensor t of rank 1 or 2, whatever was
\* visualised before, the chart's kind, labels and series are those of
\* tensorToChartData(t): kind line with the single series of t's values for
\* rank 1, kind bar with one series per row for rank 2.
C26_ChartShowsTensor ==
    (lastOp = "updateChart" /\ chart.type # "none" /\ Len(lastArgs.shape) \in {1, 2}) =>
        LET chartData == TensorToChartData(lastArgs.tensor, lastArgs.shape)
        IN  /\ chart.type = chartData.type
            /\ chart.labels = chartData.labels
            /\ IF Len(lastArgs.shape) = 1
               THEN /\ Len(chart.datasets) = 1
                    /\ chart.datasets[1].data = chartData.data
               ELSE /\ Len(chart.datasets) = lastArgs.shape[1]
                    /\ \A r \in 1..Len(chart.datasets) :
                          chart.datasets[r].data = chartData.datasets[r].data

C28_TwoMemoryReads ==
    /\ []((bench.pc # "idle" /\ bench.kind = "benchmark" /\ bench.iterations >= 1) =>
             /\ bench.pc \in {"loop", "operation", "thrown"} => bench.memoryReads = 1
             /\ bench.pc = "returned" =>
                   /\ bench.memoryReads = 2
                   /\ Len(bench.calls) = bench.iterations
                   /\ ret.memoryDelta = tfBytes - bench.memoryBefore)
    /\ [][(bench.pc = "idle" /\ bench'.pc # "idle" /\ bench'.kind = "benchmark") =>
             /\ bench'.memoryBefore = tfBytes
             /\ bench'.calls = <<>>]_vars
    /\ [][(bench.pc # "idle" /\ bench'.pc # "idle") =>
             bench'.memoryBefore = bench.memoryBefore]_vars

\* a benchmark of two calls that allocated 4096 bytes each has returned
C28_Witness ==
    /\ bench.pc = "returned"
    /\ bench.kind = "benchmark"
    /\ bench.iterations = 2
    /\ bench.memoryReads = 2
    /\ ret.memoryDelta = 8192

=============================================================================
